---- MODULE Spec2Model ----
(***************************************************************************)
(* The Opera node RPC bridge of internal/repository/rpc/utils.go:          *)
(* FtmBridge.GasPrice, FtmBridge.GasEstimate, GasEstimateWithBlock,        *)
(* FtmBridge.TokenNameAttempt and the ABI string decoder parseAbiString.   *)
(*                                                                         *)
(* Numbers that do not fit a machine word of the model checker (big.Int,   *)
(* uint64, int) are kept as big-endian byte sequences and the arithmetic   *)
(* on them is done byte by byte, with the width the Go type has.           *)
(* An error value is a record [isNil, text, arg]: text is the message (or  *)
(* the format string of fmt.Errorf) as a sequence of characters, arg the   *)
(* formatted operand.                                                      *)
(***************************************************************************)
EXTENDS Integers, Sequences, FiniteSets, TLC

\* ------------------------------------------------------------------ bounds

\* The longest buffer a contract call returns, in 32-byte words.
MaxWords == 3

\* A returned buffer may fall short of a word boundary by up to this many bytes.
MaxTrunc == 1

\* ------------------------------------------- state beyond one invocation

VARIABLES
    first,   \* the first contract call answered with a buffer, and what
             \* TokenNameAttempt returned for it
    inv,     \* concurrent GasPrice invocations: where each caller stands
    frames   \* concurrent GasPrice invocations: price and try of each

aux == <<first, inv, frames>>

\* ------------------------------------------------- bytes and big integers

\* n zero bytes.
Zeros(n) == [i \in 1..n |-> 0]

\* The bytes without their leading zeros: the magnitude big.Int keeps.
RECURSIVE Strip(_)
Strip(b) ==
    IF b = <<>> THEN <<>>
    ELSE IF b[1] = 0 THEN Strip(Tail(b))
    ELSE b

\* b left-padded with zeros to n bytes; the low n bytes when b is longer.
PadTo(b, n) ==
    IF Len(b) >= n THEN SubSeq(b, Len(b) - n + 1, Len(b))
    ELSE Zeros(n - Len(b)) \o b

\* big.Int.SetBytes: the buffer read as a big-endian unsigned integer.
SetBytes(buf) == Strip(buf)

\* The number of bits of one non-zero byte.
BitLen8(x) == CHOOSE n \in 1..8 : 2^(n-1) <= x /\ x < 2^n

\* big.Int.BitLen: the length of the absolute value in bits, 0 for zero.
BitLen(x) ==
    IF Strip(x) = <<>> THEN 0
    ELSE 8 * (Len(Strip(x)) - 1) + BitLen8(Strip(x)[1])

\* The sum of two byte sequences of one length and a carry, one byte longer.
RECURSIVE AddBytes(_, _, _)
AddBytes(a, b, c) ==
    IF a = <<>> THEN <<c>>
    ELSE LET n == Len(a)
             s == a[n] + b[n] + c
         IN  AddBytes(SubSeq(a, 1, n-1), SubSeq(b, 1, n-1), s \div 256) \o <<s % 256>>

\* big.Int.Add on non-negative values.
BigAdd(x, y) ==
    LET n == IF Len(x) >= Len(y) THEN Len(x) ELSE Len(y)
    IN  Strip(AddBytes(PadTo(x, n), PadTo(y, n), 0))

\* big.Int.Cmp on non-negative values: -1, 0 or 1.
RECURSIVE LexCmp(_, _)
LexCmp(a, b) ==
    IF a = <<>> THEN 0
    ELSE IF a[1] < b[1] THEN -1
    ELSE IF a[1] > b[1] THEN 1
    ELSE LexCmp(Tail(a), Tail(b))

BigCmp(x, y) ==
    LET a == Strip(x)
        b == Strip(y)
    IN  IF Len(a) < Len(b) THEN -1
        ELSE IF Len(a) > Len(b) THEN 1
        ELSE LexCmp(a, b)

\* common.Big32, the 32 bytes of the length word to skip
\* (Big32Missing: the slip of not skipping it).
Big32Missing == <<>>
Big32Clobbered == IF first.set THEN <<64>> ELSE <<32>>
Big32 == <<32>>

\* big.Int.Uint64: the low 64 bits of the value, as 8 bytes.
Uint64(x) == PadTo(x, 8)

\* int(u) of a uint64 on a 64-bit build: the same 64 bits, read as two's complement.
IntOfUint64(u) == u

\* An int constant as 8 bytes.
IntConst(n) == Zeros(7) \o <<n>>

\* a + b on int: 64 bits, the carry out is dropped (Go wraps silently).
IntAdd(a, b) == Tail(AddBytes(a, b, 0))

\* a - b on int: a + ~b + 1, 64 bits.
IntSub(a, b) == Tail(AddBytes(a, [i \in 1..8 |-> 255 - b[i]], 1))

\* The sign bit of an int.
IntNeg(a) == a[1] >= 128

\* An int that the low three bytes hold: non-negative and below 2^24.
IntSmall(a) == SubSeq(a, 1, 5) = Zeros(5)

\* The value of a short byte sequence.
RECURSIVE BytesVal(_)
BytesVal(b) ==
    IF b = <<>> THEN 0
    ELSE BytesVal(SubSeq(b, 1, Len(b) - 1)) * 256 + b[Len(b)]

\* The value of a small int.
IntVal(a) == BytesVal(SubSeq(a, 6, 8))

\* The bounds check of the slice expression data[lo:hi] on a slice whose
\* capacity is its length n: 0 <= lo <= hi <= n, on signed ints.
SliceInRange(lo, hi, n) ==
    /\ ~IntNeg(lo) /\ ~IntNeg(hi)
    /\ IntSmall(lo) /\ IntSmall(hi)
    /\ IntVal(lo) <= IntVal(hi)
    /\ IntVal(hi) <= n

\* data[lo:hi] with 0-based lo, hi within range.
GoSlice(data, lo, hi) == SubSeq(data, lo + 1, hi)

\* The 0-based indices data[lo:hi] covers.
Indices(lo, hi) == lo..(hi - 1)

\* --------------------------------------------------------------- errors

\* text as the characters of a Go string.
NoErr == [isNil |-> TRUE, text |-> <<>>, arg |-> <<>>]

Errorf(text, arg) == [isNil |-> FALSE, text |-> text, arg |-> arg]

\* strings.Contains
Contains(s, sub) ==
    \E i \in 0..(Len(s) - Len(sub)) : SubSeq(s, i + 1, i + Len(sub)) = sub

TextMalformed ==
    <<"a", "b", "i", " ", "e", "n", "c", "o", "d", "e", "d", " ", "s", "t", "r", "i", "n", "g", " ",
      "e", "x", "p", "e", "c", "t", "e", "d", ",", " ", "o", "n", "l", "y", " ", "%", "d", " ",
      "b", "y", "t", "e", "s", " ", "r", "e", "c", "e", "i", "v", "e", "d">>

TextOffsetOverflow ==
    <<"s", "t", "r", "i", "n", "g", " ", "o", "f", "f", "s", "e", "t", " ", "l", "a", "r", "g", "e", "r",
      " ", "t", "h", "a", "n", " ", "i", "n", "t", "6", "4", ":", " ", "%", "v">>

TextLengthOverflow ==
    <<"s", "t", "r", "i", "n", "g", " ", "l", "e", "n", "g", "t", "h", " ", "l", "a", "r", "g", "e", "r",
      " ", "t", "h", "a", "n", " ", "i", "n", "t", "6", "4", ":", " ", "%", "v">>

\* ------------------------------------------------------- parseAbiString

\* The least length of an ABI encoded string: offset, length and one data word
\* (MinAbiLenShort: the slip of asking for the two header words only).
MinAbiLenShort == 2 * 32
MinAbiLen == 96

\* The widest offset or length that passes the range check, in bits
\* (MaxIntBitsWide: the slip of letting the sign bit through).
MaxIntBitsWide == 8 * 8
MaxIntBits == 63

\* What one run of parseAbiString comes to: the string and the error it
\* returns, or a run-time panic (slice bounds out of range), and the set of
\* 0-based indices of data it has read.
AbiReturn(str, err, reads) ==
    [str |-> str, err |-> err, panic |-> FALSE, reads |-> reads]

AbiPanic(reads) ==
    [str |-> <<>>, err |-> NoErr, panic |-> TRUE, reads |-> reads]

\* offset := int(bigOffset.Add(bigOffset, common.Big32).Uint64()): the start of
\* the string data, as the int the slice expressions use.
AbiOffset(bigOffset) == IntOfUint64(Uint64(BigAdd(bigOffset, Big32)))

\* offset+length with length := int(bigLength.Uint64()): the end of the
\* string data, as the int the last slice expression uses.
AbiEnd(offset, bigLength) == IntAdd(offset, IntOfUint64(Uint64(bigLength)))

\* data[offset : offset+length], the last statement.
AbiBody(data, offset, bigLength, reads) ==
    LET end    == AbiEnd(offset, bigLength)
    IN  IF ~SliceInRange(offset, end, Len(data)) THEN AbiPanic(reads)
        ELSE AbiReturn(GoSlice(data, IntVal(offset), IntVal(end)), NoErr,
                       reads \cup Indices(IntVal(offset), IntVal(end)))

\* The length word data[offset-32 : offset] and its range check.
AbiLength(data, offset, reads) ==
    LET start == IntSub(offset, IntConst(32))
    IN  IF ~SliceInRange(start, offset, Len(data)) THEN AbiPanic(reads)
        ELSE LET bigLength == SetBytes(GoSlice(data, IntVal(start), IntVal(offset)))
                 seen      == reads \cup Indices(IntVal(start), IntVal(offset))
             IN  IF BitLen(bigLength) > MaxIntBits
                 THEN AbiReturn(<<>>, Errorf(TextLengthOverflow, bigLength), seen)
                 ELSE AbiBody(data, offset, bigLength, seen)

parseAbiString(data) ==
    IF Len(data) < MinAbiLen
    THEN AbiReturn(<<>>, Errorf(TextMalformed, <<Len(data)>>), {})
    ELSE LET bigOffset == SetBytes(GoSlice(data, 0, 32))
             seen      == Indices(0, 32)
         IN  IF BitLen(bigOffset) > MaxIntBits
             THEN AbiReturn(<<>>, Errorf(TextOffsetOverflow, bigOffset), seen)
             ELSE AbiLength(data, AbiOffset(bigOffset), seen)

\* ------------------------------------------------------------ constants

\* maxAcceptedGasPrice = 1_000_000_000_000_000_000 = 0x0DE0B6B3A7640000
maxAcceptedGasPrice == <<13, 224, 182, 179, 167, 100, 0, 0>>

\* solidityCallFunctionName, in hex
solidityCallFunctionName == "06fdde03"

\* The block argument of the new RPC API: the latest block.
BlockTypeLatest == "latest"

\* common.Address{}
ZeroAddress == "0x0000000000000000000000000000000000000000"

TextGasPriceUnavailable ==
    <<"g", "a", "s", " ", "p", "r", "i", "c", "e", " ", "n", "o", "t", " ", "a", "v", "a", "i", "l",
      "a", "b", "l", "e", ",", " ", "p", "l", "e", "a", "s", "e", " ", "t", "r", "y", " ",
      "a", "g", "a", "i", "n", " ", "l", "a", "t", "e", "r">>

TextMissingValue ==
    <<"m", "i", "s", "s", "i", "n", "g", " ", "v", "a", "l", "u", "e">>

\* The pause between two attempts, in milliseconds.
SleepMs == 100

\* --------------------------------------------- what the node may answer

\* Messages of the errors the RPC client may come back with.
TextMissingArgument ==
    <<"m", "i", "s", "s", "i", "n", "g", " ", "v", "a", "l", "u", "e", " ", "f", "o", "r", " ",
      "r", "e", "q", "u", "i", "r", "e", "d", " ", "a", "r", "g", "u", "m", "e", "n", "t", " ", "1">>

TextExecutionReverted ==
    <<"e", "x", "e", "c", "u", "t", "i", "o", "n", " ", "r", "e", "v", "e", "r", "t", "e", "d">>

TextConnectionRefused ==
    <<"c", "o", "n", "n", "e", "c", "t", "i", "o", "n", " ", "r", "e", "f", "u", "s", "e", "d">>

TextMissingTwoSpaces ==
    <<"i", "n", "v", "a", "l", "i", "d", " ", "a", "r", "g", "u", "m", "e", "n", "t", " ", "0", ":", " ",
      "m", "i", "s", "s", "i", "n", "g", " ", " ", "v", "a", "l", "u", "e">>

TextMissingCapital ==
    <<"M", "i", "s", "s", "i", "n", "g", " ", "V", "a", "l", "u", "e", " ", "f", "o", "r", " ",
      "a", "r", "g", "u", "m", "e", "n", "t">>

RpcErrors ==
    { Errorf(t, <<>>) : t \in { TextMissingArgument, TextExecutionReverted, TextConnectionRefused,
                                TextMissingTwoSpaces, TextMissingCapital } }

\* Gas prices: 0, 1 Gwei, the ceiling, one Wei above it, 2^64.
Prices ==
    { <<>>, <<59, 154, 202, 0>>, maxAcceptedGasPrice,
      <<13, 224, 182, 179, 167, 100, 0, 1>>, <<1, 0, 0, 0, 0, 0, 0, 0, 0>> }

\* Gas estimates (hexutil.Uint64).
Estimates == { 0, 21000 }

\* An answer of rpc.Call or CallContract: an error, or a nil error and a value.
Failure(e) == [err |-> e, val |-> <<>>]
Success(v) == [err |-> NoErr, val |-> v]

GasPriceResponses == { Failure(e) : e \in RpcErrors } \cup { Success(p) : p \in Prices }

EstimateResponses == { Failure(e) : e \in RpcErrors } \cup { Success(<<v>>) : v \in Estimates }

\* 32-byte words a returned buffer is made of.
Word(b) == PadTo(b, 32)

Words ==
    { Word(<<>>), Word(<<5>>), Word(<<32>>), Word(<<33>>), Word(<<64>>),
      <<104, 101, 108, 108, 111>> \o Zeros(27),
      <<5>> \o Zeros(31),
      Word(<<127, 255, 255, 255, 255, 255, 255, 255>>),
      Word(<<128, 0, 0, 0, 0, 0, 0, 0>>),
      [i \in 1..32 |-> 255] }

RECURSIVE WordSeqs(_)
WordSeqs(k) ==
    IF k = 0 THEN { <<>> }
    ELSE { w \o s : w \in Words, s \in WordSeqs(k - 1) }

\* b without its last t bytes.
Truncate(b, t) == IF Len(b) >= t THEN SubSeq(b, 1, Len(b) - t) ELSE <<>>

\* The buffers a contract call may return (nil and the empty buffer are both
\* the buffer of length 0: the code tells them apart nowhere but in a test
\* that len(data) < 96 decides the same way).
Buffers ==
    UNION { { Truncate(b, t) : b \in WordSeqs(k), t \in 0..MaxTrunc } : k \in 0..MaxWords }

ContractResponses == { Failure(e) : e \in RpcErrors } \cup { Success(b) : b \in Buffers }

\* Transaction probes of GasEstimate (From, To, Value, Data; "nil" a nil pointer).
NoProbe == [from |-> "", to |-> "", value |-> "", data |-> ""]

Probes ==
    { [from |-> "0xA1", to |-> "0xB2", value |-> "0x10", data |-> "0x"],
      [from |-> "nil", to |-> "0xB2", value |-> "nil", data |-> "nil"] }

Addresses == { "0xC1", "0xC2" }

\* ------------------------------------------------------------ the state

VARIABLES
    op,      \* the bridge operation in progress, "none" when there is none
    pc,      \* where the operation stands
    trx,     \* GasEstimate, GasEstimateWithBlock: the probe passed in
    adr,     \* TokenNameAttempt: the contract address passed in
    price,   \* GasPrice: var price hexutil.Big
    try,     \* GasPrice: var try uint8
    data,    \* TokenNameAttempt: the bytes the contract call returned
    reads,   \* the indices of data the decoder has read
    trace,   \* the RPC calls and the sleeps of the operation, in order
    resps,   \* what the node answered to each call of the operation, in order
    ret      \* what the operation returned: [val, err]

\* The state of the one operation a sequential caller has in progress.
solo == <<op, pc, trx, adr, price, try, data, reads, trace, resps, ret>>

vars == <<op, pc, trx, adr, price, try, data, reads, trace, resps, ret, first, inv, frames>>

NoRet == [val |-> <<>>, err |-> NoErr]

CallEv(method, probe, block) ==
    [ev |-> "call", method |-> method, probe |-> probe, block |-> block, ms |-> 0]

SleepEv(ms) ==
    [ev |-> "sleep", method |-> "", probe |-> NoProbe, block |-> "", ms |-> ms]

\* The goroutines that run GasPrice on the one bridge at the same time.
Callers == {"a", "b"}

\* No contract call has been answered yet.
NoFirst == [set |-> FALSE, between |-> FALSE, data |-> <<>>, ret |-> NoRet]

\* A caller that has not invoked GasPrice: no call made, no sleep taken,
\* no earlier invocation behind it.
IdleCaller ==
    [pc |-> "idle", calls |-> 0, sleeps |-> 0, resps |-> <<>>, ret |-> NoRet,
     prev |-> "none", met |-> FALSE]

\* var price hexutil.Big; var try uint8
ZeroFrame == [price |-> <<>>, try |-> 0]

Init ==
    /\ first = NoFirst
    /\ inv = [c \in Callers |-> IdleCaller]
    /\ frames = [c \in Callers |-> ZeroFrame]
    /\ op = "none"
    /\ pc = "idle"
    /\ trx = NoProbe
    /\ adr = ""
    /\ price = <<>>
    /\ try = 0
    /\ data = <<>>
    /\ reads = {}
    /\ trace = <<>>
    /\ resps = <<>>
    /\ ret = NoRet

\* err != nil after a call (CallFailedNever: the slip of dropping the test).
CallFailedNever(r) == FALSE
CallFailed(r) == ~r.err.isNil

\* The operation returns (v, e).
Return(v, e) ==
    /\ ret' = [val |-> v, err |-> e]
    /\ pc' = "done"

\* ------------------------------------------------------------- GasPrice

\* price.ToInt().Cmp(maxAcceptedGasPrice) <= 0
\* (PriceAcceptableStrict: < 0; PriceAcceptableInverted: the comparison turned round).
PriceAcceptableStrict(p) == BigCmp(p, maxAcceptedGasPrice) < 0
PriceAcceptableInverted(p) == BigCmp(p, maxAcceptedGasPrice) >= 0
PriceAcceptable(p) == BigCmp(p, maxAcceptedGasPrice) <= 0

\* try > 2 (AllAttemptsFailedEarly: the slip of giving up one attempt sooner;
\* AllAttemptsFailedNever: a test no uint8 passes, such as try > 255).
AllAttemptsFailedEarly(t) == t > 1
AllAttemptsFailedNever(t) == t > 255
AllAttemptsFailed(t) == t > 2

\* A caller invokes GasPrice: price is the zero value, try is 0.
GasPriceEnter ==
    /\ pc = "idle"
    /\ op' = "GasPrice"
    /\ pc' = "gp_call"
    /\ price' = <<>>
    /\ try' = 0
    /\ trace' = <<>>
    /\ resps' = <<>>
    /\ ret' = NoRet
    /\ UNCHANGED <<trx, adr, data, reads>>
    /\ UNCHANGED aux

\* err := ftm.rpc.Call(&price, "ftm_gasPrice"); an error returns at once,
\* with price as the last successful call left it.
GasPriceCall ==
    /\ pc = "gp_call"
    /\ \E r \in GasPriceResponses :
        /\ trace' = Append(trace, CallEv("ftm_gasPrice", NoProbe, ""))
        /\ resps' = Append(resps, r)
        /\ IF CallFailed(r)
           THEN Return(price, r.err) /\ UNCHANGED price
           ELSE price' = r.val /\ pc' = "gp_check" /\ UNCHANGED ret
    /\ UNCHANGED <<op, trx, adr, try, data, reads>>
    /\ UNCHANGED aux

\* The price check and the check of the attempts made.
GasPriceCheck ==
    /\ pc = "gp_check"
    /\ IF PriceAcceptable(price) THEN Return(price, NoErr)
       ELSE IF AllAttemptsFailed(try) THEN Return(price, Errorf(TextGasPriceUnavailable, <<>>))
       ELSE pc' = "gp_retry" /\ UNCHANGED ret
    /\ UNCHANGED <<op, trx, adr, price, try, data, reads, trace, resps>>
    /\ UNCHANGED aux

\* try++; time.Sleep(100 * time.Millisecond)
GasPriceRetry ==
    /\ pc = "gp_retry"
    /\ try' = (try + 1) % 256
    /\ trace' = Append(trace, SleepEv(SleepMs))
    /\ pc' = "gp_call"
    /\ UNCHANGED <<op, trx, adr, price, data, reads, resps, ret>>
    /\ UNCHANGED aux

\* ---------------------------------------------------------- GasEstimate

\* strings.Contains(err.Error(), "missing value")
\* (IsMissingValueAlways, IsMissingValueNever: the test decided without the message).
IsMissingValueAlways(e) == TRUE
IsMissingValueNever(e) == FALSE
IsMissingValue(e) == Contains(e.text, TextMissingValue)

GasEstimateEnter ==
    /\ pc = "idle"
    /\ \E t \in Probes : trx' = t
    /\ op' = "GasEstimate"
    /\ pc' = "ge_call"
    /\ trace' = <<>>
    /\ resps' = <<>>
    /\ ret' = NoRet
    /\ UNCHANGED <<adr, price, try, data, reads>>
    /\ UNCHANGED aux

\* The primary call, with the probe only.
GasEstimateCall ==
    /\ pc = "ge_call"
    /\ \E r \in EstimateResponses :
        /\ trace' = Append(trace, CallEv("ftm_estimateGas", trx, ""))
        /\ resps' = Append(resps, r)
        /\ IF CallFailed(r)
           THEN IF IsMissingValue(r.err)
                THEN pc' = "geb_call" /\ UNCHANGED ret
                ELSE Return(<<>>, r.err)
           ELSE Return(r.val, NoErr)
    /\ UNCHANGED <<op, trx, adr, price, try, data, reads>>
    /\ UNCHANGED aux

\* A caller invokes GasEstimateWithBlock itself.
GasEstimateWithBlockEnter ==
    /\ pc = "idle"
    /\ \E t \in Probes : trx' = t
    /\ op' = "GasEstimateWithBlock"
    /\ pc' = "geb_call"
    /\ trace' = <<>>
    /\ resps' = <<>>
    /\ ret' = NoRet
    /\ UNCHANGED <<adr, price, try, data, reads>>
    /\ UNCHANGED aux

\* The call with the block: GasEstimateWithBlock, whose result GasEstimate
\* returns as it is (WithBlockArgNone: the slip of leaving the block out).
WithBlockArgNone(t) == CallEv("ftm_estimateGas", t, "")
WithBlockArg(t) == CallEv("ftm_estimateGas", t, BlockTypeLatest)

\* if err != nil { return nil, err }; return &val, nil
\* (WithBlockResultWrapped: the slip of returning another error than the call's).
WithBlockResultWrapped(r) ==
    IF ~r.err.isNil THEN [val |-> <<>>, err |-> Errorf(TextGasPriceUnavailable, <<>>)]
    ELSE [val |-> r.val, err |-> NoErr]
WithBlockResult(r) ==
    IF ~r.err.isNil THEN [val |-> <<>>, err |-> r.err]
    ELSE [val |-> r.val, err |-> NoErr]

GasEstimateWithBlockCall ==
    /\ pc = "geb_call"
    /\ \E r \in EstimateResponses :
        /\ trace' = Append(trace, WithBlockArg(trx))
        /\ resps' = Append(resps, r)
        /\ Return(WithBlockResult(r).val, WithBlockResult(r).err)
    /\ UNCHANGED <<op, trx, adr, price, try, data, reads>>
    /\ UNCHANGED aux

\* ----------------------------------------------------- TokenNameAttempt

TokenNameEnter ==
    /\ pc = "idle"
    /\ \E a \in Addresses : adr' = a
    /\ op' = "TokenNameAttempt"
    /\ pc' = "tn_call"
    /\ data' = <<>>
    /\ reads' = {}
    /\ trace' = <<>>
    /\ resps' = <<>>
    /\ ret' = NoRet
    /\ UNCHANGED <<trx, price, try>>
    /\ UNCHANGED aux

\* ftm.eth.CallContract(ctx, CallMsg{From: Address{}, To: adr, Data: selector}, nil):
\* the nil block number asks for the latest state.
TokenNameCallFrom(answers) ==
    /\ \E r \in answers :
        /\ trace' = Append(trace,
              CallEv("CallContract",
                     [from |-> ZeroAddress, to |-> adr, value |-> "nil",
                      data |-> solidityCallFunctionName],
                     "nil"))
        /\ resps' = Append(resps, r)
        /\ IF CallFailed(r)
           THEN Return(<<>>, r.err) /\ UNCHANGED data
           ELSE data' = r.val /\ pc' = "tn_parse" /\ UNCHANGED ret
    /\ UNCHANGED <<op, trx, adr, price, try, reads>>
    /\ UNCHANGED aux

\* The contract call, answered with any buffer or failure.
TokenNameCall ==
    /\ pc = "tn_call"
    /\ TokenNameCallFrom(ContractResponses)

\* return parseAbiString(data); a panic of the decoder ends the operation
\* abnormally, with nothing returned.
TokenNameParse ==
    /\ pc = "tn_parse"
    /\ LET r == parseAbiString(data)
       IN  /\ reads' = r.reads
           /\ IF r.panic
              THEN pc' = "panic" /\ UNCHANGED ret
              ELSE Return(r.str, r.err)
    /\ UNCHANGED <<op, trx, adr, price, try, data, trace, resps>>
    /\ UNCHANGED aux

\* ------------------------------------------------------------ the caller

\* The caller has its result; the locals of the operation are gone.
Finish ==
    /\ pc = "done"
    /\ op' = "none"
    /\ pc' = "idle"
    /\ trx' = NoProbe
    /\ adr' = ""
    /\ price' = <<>>
    /\ try' = 0
    /\ data' = <<>>
    /\ reads' = {}
    /\ trace' = <<>>
    /\ resps' = <<>>
    /\ ret' = NoRet
    /\ UNCHANGED aux

Next ==
    \/ GasPriceEnter
    \/ GasPriceCall
    \/ GasPriceCheck
    \/ GasPriceRetry
    \/ GasEstimateEnter
    \/ GasEstimateCall
    \/ GasEstimateWithBlockEnter
    \/ GasEstimateWithBlockCall
    \/ TokenNameEnter
    \/ TokenNameCall
    \/ TokenNameParse
    \/ Finish

Spec == Init /\ [][Next]_vars

\* Every RPC call returns, every sleep ends, and the goroutine that runs
\* GasPrice keeps running: no step of a GasPrice invocation is put off for ever.
FairSpec ==
    /\ Spec
    /\ WF_vars(GasPriceCall)
    /\ WF_vars(GasPriceCheck)
    /\ WF_vars(GasPriceRetry)

\* ------------------------------------- GasPrice, invoked concurrently

\* What ftm_gasPrice may answer to concurrent callers: a transport failure,
\* 1 Gwei, the ceiling, one Wei above the ceiling.
ConcResponses ==
    { Failure(Errorf(TextConnectionRefused, <<>>)),
      Success(<<59, 154, 202, 0>>),
      Success(maxAcceptedGasPrice),
      Success(<<13, 224, 182, 179, 167, 100, 0, 1>>) }

\* price and try are locals of GasPrice: each invocation has a frame of its
\* own (FrameShared: the slip of keeping them in one place for all callers).
FrameShared(c) == "a"
Frame(c) == c

\* var try uint8 starts every invocation at zero
\* (FreshTryStale: the slip of a counter that outlives the invocation).
FreshTryStale(old) == old
FreshTry(old) == 0

\* The caller is inside GasPrice.
Busy(c) == inv[c].pc \notin {"idle", "done"}

\* How an invocation ended.
Outcome(r) ==
    IF r.err.isNil THEN "ok"
    ELSE IF r.err.text = TextGasPriceUnavailable THEN "unavailable"
    ELSE "transport"

\* Caller c invokes GasPrice: price is the zero value, try is 0.
ConcEnter(c) ==
    /\ inv[c].pc = "idle"
    /\ inv' = [inv EXCEPT ![c] =
                 [pc |-> "gp_call", calls |-> 0, sleeps |-> 0, resps |-> <<>>,
                  ret |-> NoRet, prev |-> @.prev, met |-> FALSE]]
    /\ frames' = [frames EXCEPT ![Frame(c)] =
                    [price |-> <<>>, try |-> FreshTry(@.try)]]
    /\ UNCHANGED <<first, solo>>

\* err := ftm.rpc.Call(&price, "ftm_gasPrice") of caller c; an error returns
\* at once, with price as the last successful call left it.
ConcCall(c) ==
    /\ inv[c].pc = "gp_call"
    /\ \E r \in ConcResponses :
        LET met == inv[c].met \/ \E d \in Callers \ {c} : Busy(d)
        IN  IF CallFailed(r)
            THEN /\ inv' = [inv EXCEPT ![c] =
                              [@ EXCEPT !.pc = "done", !.calls = @ + 1,
                                        !.resps = Append(@, r), !.met = met,
                                        !.ret = [val |-> frames[Frame(c)].price,
                                                 err |-> r.err]]]
                 /\ UNCHANGED frames
            ELSE /\ inv' = [inv EXCEPT ![c] =
                              [@ EXCEPT !.pc = "gp_check", !.calls = @ + 1,
                                        !.resps = Append(@, r), !.met = met]]
                 /\ frames' = [frames EXCEPT ![Frame(c)].price = r.val]
    /\ UNCHANGED <<first, solo>>

\* The price check and the check of the attempts made, of caller c.
ConcCheck(c) ==
    /\ inv[c].pc = "gp_check"
    /\ LET f == frames[Frame(c)]
       IN  inv' = [inv EXCEPT ![c] =
                     IF PriceAcceptable(f.price)
                     THEN [@ EXCEPT !.pc = "done",
                                    !.ret = [val |-> f.price, err |-> NoErr]]
                     ELSE IF AllAttemptsFailed(f.try)
                     THEN [@ EXCEPT !.pc = "done",
                                    !.ret = [val |-> f.price,
                                             err |-> Errorf(TextGasPriceUnavailable, <<>>)]]
                     ELSE [@ EXCEPT !.pc = "gp_retry"]]
    /\ UNCHANGED <<frames, first, solo>>

\* try++; time.Sleep(100 * time.Millisecond) of caller c
ConcRetry(c) ==
    /\ inv[c].pc = "gp_retry"
    /\ frames' = [frames EXCEPT ![Frame(c)].try = (@ + 1) % 256]
    /\ inv' = [inv EXCEPT ![c] = [@ EXCEPT !.pc = "gp_call", !.sleeps = @ + 1]]
    /\ UNCHANGED <<first, solo>>

\* Caller c has its result and may invoke GasPrice again; the memory of the
\* frame is left as it is.
ConcFinish(c) ==
    /\ inv[c].pc = "done"
    /\ inv' = [inv EXCEPT ![c] =
                 [@ EXCEPT !.pc = "idle", !.prev = Outcome(inv[c].ret)]]
    /\ UNCHANGED <<frames, first, solo>>

NextConc ==
    \E c \in Callers :
        \/ ConcEnter(c)
        \/ ConcCall(c)
        \/ ConcCheck(c)
        \/ ConcRetry(c)
        \/ ConcFinish(c)

SpecConc == Init /\ [][NextConc]_vars

\* ------------------------- TokenNameAttempt, answered the same way again

\* Words of the buffers answered again and again: 0, 5, 32, "hello", 2^63.
RepeatWords ==
    { Word(<<>>), Word(<<5>>), Word(<<32>>),
      <<104, 101, 108, 108, 111>> \o Zeros(27),
      Word(<<128, 0, 0, 0, 0, 0, 0, 0>>) }

\* The empty buffer, one of 95 bytes, and every buffer of three such words.
RepeatBuffers ==
    { <<>>, Zeros(95) } \cup
    { w1 \o w2 \o w3 : w1 \in RepeatWords, w2 \in RepeatWords, w3 \in RepeatWords }

\* Once a contract call has been answered with a buffer, every later one is
\* answered with that buffer or fails.
RepeatResponses ==
    { Failure(e) : e \in RpcErrors } \cup
    { Success(b) : b \in IF first.set THEN {first.data} ELSE RepeatBuffers }

TokenNameCallAgain ==
    /\ pc = "tn_call"
    /\ TokenNameCallFrom(RepeatResponses)

\* TokenNameAttempt has returned after a contract call answered with a buffer.
NameDecoded ==
    /\ op = "TokenNameAttempt"
    /\ resps # <<>>
    /\ resps[1].err.isNil

\* The caller has its result; the locals of the operation are gone. The first
\* buffer answered and the result returned for it are kept on record, and so
\* is that another bridge operation has run since.
FinishRecord ==
    /\ pc = "done"
    /\ first' = IF ~first.set /\ NameDecoded
                THEN [set |-> TRUE, between |-> FALSE, data |-> data, ret |-> ret]
                ELSE IF first.set /\ op # "TokenNameAttempt"
                THEN [first EXCEPT !.between = TRUE]
                ELSE first
    /\ op' = "none"
    /\ pc' = "idle"
    /\ trx' = NoProbe
    /\ adr' = ""
    /\ price' = <<>>
    /\ try' = 0
    /\ data' = <<>>
    /\ reads' = {}
    /\ trace' = <<>>
    /\ resps' = <<>>
    /\ ret' = NoRet
    /\ UNCHANGED <<inv, frames>>

NextRepeat ==
    \/ GasPriceEnter
    \/ GasPriceCall
    \/ GasPriceCheck
    \/ GasPriceRetry
    \/ GasEstimateEnter
    \/ GasEstimateCall
    \/ GasEstimateWithBlockEnter
    \/ GasEstimateWithBlockCall
    \/ TokenNameEnter
    \/ TokenNameCallAgain
    \/ TokenNameParse
    \/ FinishRecord

SpecRepeat == Init /\ [][NextRepeat]_vars

\* --------------------------------------------------------- properties

\* The number of RPC calls and of sleeps of the operation so far.
NumCalls == Cardinality({ i \in DOMAIN trace : trace[i].ev = "call" })
NumSleeps == Cardinality({ i \in DOMAIN trace : trace[i].ev = "sleep" })

\* An answer with a price above the ceiling, and one with a price within it.
AboveCeiling(r) == r.err.isNil /\ BigCmp(r.val, maxAcceptedGasPrice) > 0
WithinCeiling(r) == r.err.isNil /\ BigCmp(r.val, maxAcceptedGasPrice) <= 0

\* Every answer of the GasPrice invocation so far was a price above the ceiling.
OnlyAboveCeiling ==
    op = "GasPrice" /\ \A i \in DOMAIN resps : AboveCeiling(resps[i])

ErrGasPriceUnavailable == Errorf(TextGasPriceUnavailable, <<>>)

\* Calls and sleeps alternate, a call first, every sleep of 100 ms.
CallsSeparatedBySleeps ==
    \A i \in DOMAIN trace :
        IF i % 2 = 1 THEN trace[i].ev = "call" /\ trace[i].method = "ftm_gasPrice"
        ELSE trace[i].ev = "sleep" /\ trace[i].ms = 100

\* C1, as stated: while the node answers every gas price call with a price
\* above the ceiling, a GasPrice invocation issues no more than 3 calls, and
\* it returns the "gas price not available" error after exactly 3 calls and
\* 2 sleeps of 100 ms.
C1_ThreeCallsTwoWaits ==
    OnlyAboveCeiling =>
        /\ NumCalls <= 3
        /\ CallsSeparatedBySleeps
        /\ pc = "done" =>
              /\ ret.err = ErrGasPriceUnavailable
              /\ NumCalls = 3
              /\ NumSleeps = 2

\* C1, amended: while the node answers every gas price call with a price
\* above the ceiling, a GasPrice invocation issues no more than 4 calls, one
\* sleep of 100 ms between two calls, and it returns the "gas price not
\* available" error after exactly 4 calls and 3 sleeps.
C1_FourCallsThreeWaits ==
    OnlyAboveCeiling =>
        /\ NumCalls <= 4
        /\ CallsSeparatedBySleeps
        /\ pc = "done" =>
              /\ ret.err = ErrGasPriceUnavailable
              /\ NumCalls = 4
              /\ NumSleeps = 3

\* A GasPrice invocation that has returned after four prices above the ceiling.
C1_Witness ==
    /\ OnlyAboveCeiling
    /\ pc = "done"
    /\ Len(resps) = 4
    /\ ret.err = ErrGasPriceUnavailable

\* The last answer of the GasPrice invocation is a price within the ceiling
\* and every answer before it a price above the ceiling.
FirstAcceptableReading ==
    /\ op = "GasPrice"
    /\ resps # <<>>
    /\ WithinCeiling(resps[Len(resps)])
    /\ \A i \in 1..(Len(resps) - 1) : AboveCeiling(resps[i])

\* C2: when attempts 1..k-1 of a GasPrice invocation read a price above the
\* ceiling and attempt k reads one within it, the invocation does not retry:
\* it returns the price of attempt k with a nil error, and attempt k is its
\* last call.
C2_StopsAtFirstAcceptable ==
    FirstAcceptableReading =>
        /\ pc \in {"gp_check", "done"}
        /\ NumCalls = Len(resps)
        /\ pc = "done" => ret = [val |-> resps[Len(resps)].val, err |-> NoErr]

\* An implausible price on attempt 1, an acceptable one on attempt 2, returned.
C2_Witness ==
    /\ FirstAcceptableReading
    /\ pc = "done"
    /\ Len(resps) = 2
    /\ NumCalls = 2
    /\ ret.val = resps[2].val

\* The last call of the GasPrice invocation failed.
LastCallFailed ==
    /\ op = "GasPrice"
    /\ resps # <<>>
    /\ ~resps[Len(resps)].err.isNil

\* C3: when a call of a GasPrice invocation fails, the first or a later one,
\* the invocation has returned that error, the failed call is its last call
\* and the last entry of its trace: no call and no sleep follows.
C3_TransportFailureNotRetried ==
    LastCallFailed =>
        /\ pc = "done"
        /\ ret.err = resps[Len(resps)].err
        /\ NumCalls = Len(resps)
        /\ trace[Len(trace)].ev = "call"
        /\ NumSleeps = Len(resps) - 1

\* A transport failure of the first call, and one after an implausible reading.
C3_Witness ==
    /\ LastCallFailed
    /\ pc = "done"
    /\ Len(resps) = 2
    /\ AboveCeiling(resps[1])
    /\ ret.err = Errorf(TextConnectionRefused, <<>>)

\* C4: a price GasPrice returns with a nil error is not above
\* maxAcceptedGasPrice.
C4_CeilingOnSuccess ==
    (op = "GasPrice" /\ pc = "done" /\ ret.err.isNil) =>
        BigCmp(ret.val, maxAcceptedGasPrice) <= 0

\* GasPrice has returned the ceiling itself, after a reading above it.
C4_Witness ==
    /\ op = "GasPrice"
    /\ pc = "done"
    /\ ret.err.isNil
    /\ ret.val = maxAcceptedGasPrice
    /\ Len(resps) > 1

\* The first call of the GasEstimate invocation failed with an error whose
\* message contains "missing value"; with one that does not contain it.
PrimaryMissingValue ==
    /\ op = "GasEstimate"
    /\ resps # <<>>
    /\ ~resps[1].err.isNil
    /\ Contains(resps[1].err.text, TextMissingValue)

PrimaryOtherFailure ==
    /\ op = "GasEstimate"
    /\ resps # <<>>
    /\ ~resps[1].err.isNil
    /\ ~Contains(resps[1].err.text, TextMissingValue)

\* The primary call: the probe and no block. The fallback: the probe and the
\* latest block.
IsPrimaryCall(e) ==
    e.ev = "call" /\ e.method = "ftm_estimateGas" /\ e.probe = trx /\ e.block = ""

IsFallbackCall(e) ==
    e.ev = "call" /\ e.method = "ftm_estimateGas" /\ e.probe = trx /\ e.block = BlockTypeLatest

\* C5: when the primary call of GasEstimate fails with a "missing value"
\* error, nothing is returned before the call is reissued with the latest
\* block, and when the reissued call succeeds GasEstimate returns its value
\* with a nil error.
C5_FallbackValueReturned ==
    PrimaryMissingValue =>
        /\ Len(resps) = 1 => (pc = "geb_call" /\ ret = NoRet)
        /\ (Len(resps) = 2 /\ resps[2].err.isNil) =>
              /\ pc = "done"
              /\ IsFallbackCall(trace[2])
              /\ ret = [val |-> resps[2].val, err |-> NoErr]

\* The primary call was rejected for a missing value, the fallback gave 21000.
C5_Witness ==
    /\ PrimaryMissingValue
    /\ pc = "done"
    /\ Len(resps) = 2
    /\ ret = [val |-> <<21000>>, err |-> NoErr]

\* C6: when the primary call of GasEstimate fails with an error whose
\* message does not contain "missing value", GasEstimate returns that error
\* and no estimate, and the primary call is the only call it makes.
C6_OtherFailureSurfaced ==
    PrimaryOtherFailure =>
        /\ pc = "done"
        /\ ret = [val |-> <<>>, err |-> resps[1].err]
        /\ Len(trace) = 1
        /\ IsPrimaryCall(trace[1])

\* The primary call failed with "missing  value" (two spaces): no fallback.
C6_Witness ==
    /\ PrimaryOtherFailure
    /\ pc = "done"
    /\ resps[1].err.text = TextMissingTwoSpaces
    /\ ret.err = resps[1].err

\* C7: a GasEstimate invocation makes at most 2 calls, the primary one and
\* then at most one with the block, and when the call with the block fails
\* GasEstimate returns that call's error, whatever its message.
C7_NoRetryLoop ==
    op = "GasEstimate" =>
        /\ NumCalls <= 2
        /\ NumSleeps = 0
        /\ Len(trace) >= 1 => IsPrimaryCall(trace[1])
        /\ Len(trace) = 2 => IsFallbackCall(trace[2])
        /\ (Len(resps) = 2 /\ ~resps[2].err.isNil) =>
              /\ pc = "done"
              /\ ret = [val |-> <<>>, err |-> resps[2].err]

\* The fallback call failed with a "missing value" error again, and that
\* error was returned.
C7_Witness ==
    /\ op = "GasEstimate"
    /\ pc = "done"
    /\ Len(resps) = 2
    /\ Contains(resps[2].err.text, TextMissingValue)
    /\ ret.err = resps[2].err

\* The decoder has run on the buffer the contract call returned: it has
\* returned, or it has panicked.
Decoded ==
    /\ op = "TokenNameAttempt"
    /\ pc \in {"done", "panic"}
    /\ resps # <<>>
    /\ resps[1].err.isNil

\* C8: on a buffer shorter than 96 bytes, the empty one included, the
\* decoder returns the empty string and the "abi encoded string expected,
\* only %d bytes received" error with the length of the buffer, and it has
\* read no byte of the buffer.
C8_ShortBufferRejected ==
    (Decoded /\ Len(data) < 96) =>
        /\ pc = "done"
        /\ ret = [val |-> <<>>, err |-> Errorf(TextMalformed, <<Len(data)>>)]
        /\ reads = {}

\* A buffer of 95 bytes was rejected.
C8_Witness ==
    /\ Decoded
    /\ Len(data) = 95
    /\ pc = "done"
    /\ ret.err = Errorf(TextMalformed, <<95>>)

\* The word of data at the 0-based index at, when it is a number below 2^24:
\* its 29 high bytes are zero.
WordAt(at) == SubSeq(data, at + 1, at + 32)
WordIsSmall(at) == SubSeq(WordAt(at), 1, 29) = Zeros(29)
WordVal(at) == BytesVal(SubSeq(WordAt(at), 30, 32))

\* The buffer is well formed: it has 96 bytes or more, its first word is an
\* offset o, the word at [o, o+32) is within the buffer and is a length n,
\* and o + 32 + n is within the buffer.
WellFormed ==
    /\ Len(data) >= 96
    /\ WordIsSmall(0)
    /\ WordVal(0) + 32 <= Len(data)
    /\ WordIsSmall(WordVal(0))
    /\ WordVal(0) + 32 + WordVal(WordVal(0)) <= Len(data)

\* C9: on a well formed buffer with offset o and length n the decoder
\* returns the n bytes at [o+32, o+32+n) and a nil error.
C9_WellFormedDecoded ==
    (Decoded /\ WellFormed) =>
        /\ pc = "done"
        /\ ret = [val |-> SubSeq(data, WordVal(0) + 33, WordVal(0) + 32 + WordVal(WordVal(0))),
                  err |-> NoErr]

\* offset 0x20, length 5, "hello" padded to 32 bytes: "hello" is returned.
C9_Witness ==
    /\ Decoded
    /\ WellFormed
    /\ Len(data) = 96
    /\ WordVal(0) = 32
    /\ WordVal(32) = 5
    /\ pc = "done"
    /\ ret = [val |-> <<104, 101, 108, 108, 111>>, err |-> NoErr]

\* A 32-byte word that is greater than 2^63 - 1: one of its 24 high bytes is
\* not zero, or the top bit of its low 8 bytes is set.
Exceeds63(w) == (\E i \in 1..24 : w[i] # 0) \/ w[25] >= 128

\* C10: on a buffer of 96 bytes or more whose offset word is greater than
\* 2^63 - 1 the decoder returns the empty string and the "string offset
\* larger than int64" error; on one whose offset word is an offset within
\* the buffer and whose length word there is greater than 2^63 - 1 it
\* returns the empty string and the "string length larger than int64" error.
C10_OverflowDetected ==
    (Decoded /\ Len(data) >= 96) =>
        /\ Exceeds63(WordAt(0)) =>
              /\ pc = "done"
              /\ ret = [val |-> <<>>, err |-> Errorf(TextOffsetOverflow, Strip(WordAt(0)))]
        /\ (/\ WordIsSmall(0)
            /\ WordVal(0) + 32 <= Len(data)
            /\ Exceeds63(WordAt(WordVal(0)))) =>
              /\ pc = "done"
              /\ ret = [val |-> <<>>,
                        err |-> Errorf(TextLengthOverflow, Strip(WordAt(WordVal(0))))]

\* A length word of 2^63 at offset 0x20 was rejected.
C10_Witness ==
    /\ Decoded
    /\ Len(data) >= 96
    /\ WordVal(0) = 32
    /\ WordIsSmall(0)
    /\ WordAt(32) = Word(<<128, 0, 0, 0, 0, 0, 0, 0>>)
    /\ pc = "done"
    /\ ret.err.text = TextLengthOverflow

\* An offset word of 2^63 was rejected.
C10_WitnessOffset ==
    /\ Decoded
    /\ Len(data) >= 96
    /\ WordAt(0) = Word(<<128, 0, 0, 0, 0, 0, 0, 0>>)
    /\ pc = "done"
    /\ ret.err.text = TextOffsetOverflow

\* C11, as stated: on a buffer of 96 bytes or more the decoder returns, a
\* string or an error, and does not end in a panic; the indices it reads are
\* indices of the buffer.
C11_TotalAndMemorySafe ==
    (Decoded /\ Len(data) >= 96) =>
        /\ pc = "done"
        /\ reads \subseteq 0..(Len(data) - 1)

\* The offset word passes the range check: it is at most 2^63 - 1.
OffsetInRange == Len(data) >= 96 /\ ~Exceeds63(WordAt(0))

\* An int, read as two's complement, is the non-negative number big.
IntEquals(a, big) == ~IntNeg(a) /\ Strip(a) = Strip(big)

\* C14, as stated: for an offset word that passes the range check the start
\* of the string data the decoder slices at is the number offset + 32, not
\* a wrapped or negative one; and where the length word lies in the buffer
\* and passes the range check, the end is the number offset + 32 + length.
C14_NoIntegerWrap ==
    (Decoded /\ OffsetInRange) =>
        /\ IntEquals(AbiOffset(SetBytes(WordAt(0))), BigAdd(SetBytes(WordAt(0)), <<32>>))
        /\ (/\ WordIsSmall(0)
            /\ WordVal(0) + 32 <= Len(data)
            /\ ~Exceeds63(WordAt(WordVal(0)))) =>
              IntEquals(AbiEnd(AbiOffset(SetBytes(WordAt(0))), SetBytes(WordAt(WordVal(0)))),
                        BigAdd(BigAdd(SetBytes(WordAt(0)), <<32>>),
                               SetBytes(WordAt(WordVal(0)))))

\* The contract call of TokenNameAttempt: name(), no sender, the latest state.
NameCall ==
    CallEv("CallContract",
           [from |-> "0x0000000000000000000000000000000000000000", to |-> adr,
            value |-> "nil", data |-> "06fdde03"],
           "nil")

\* C13: a TokenNameAttempt invocation makes one contract call, the call of
\* name() with selector 06fdde03, the zero sender and the latest state, and
\* no other; when the call fails it returns the empty name and the call's
\* error and the decoder has not run; when the call succeeds, what it returns
\* is what parseAbiString makes of the bytes returned (a panic of the
\* decoder being a panic of the invocation).
C13_OneCallThenDecode ==
    (op = "TokenNameAttempt" /\ pc # "tn_call") =>
        /\ trace = <<NameCall>>
        /\ Len(resps) = 1
        /\ ~resps[1].err.isNil =>
              /\ pc = "done"
              /\ ret = [val |-> <<>>, err |-> resps[1].err]
              /\ data = <<>>
              /\ reads = {}
        /\ resps[1].err.isNil =>
              /\ data = resps[1].val
              /\ pc = "done" =>
                    /\ ~parseAbiString(resps[1].val).panic
                    /\ ret = [val |-> parseAbiString(resps[1].val).str,
                              err |-> parseAbiString(resps[1].val).err]
              /\ pc = "panic" => parseAbiString(resps[1].val).panic
              /\ pc \in {"tn_parse", "done", "panic"}

\* The contract call failed with "execution reverted", which was returned.
C13_Witness ==
    /\ op = "TokenNameAttempt"
    /\ pc = "done"
    /\ trace = <<NameCall>>
    /\ ret = [val |-> <<>>, err |-> Errorf(TextExecutionReverted, <<>>)]

\* The contract call succeeded and the decoded "hello" was returned.
C13_WitnessDecoded ==
    /\ op = "TokenNameAttempt"
    /\ pc = "done"
    /\ resps[1].err.isNil
    /\ ret = [val |-> <<104, 101, 108, 108, 111>>, err |-> NoErr]

\* C17: the first call of a GasEstimate invocation carries the probe and no
\* block; a second call is made only after the first failed with a "missing
\* value" error, and it carries the same probe and the latest block; when
\* the first call succeeds its value is returned and it is the only call.
C17_CallOrderAndShape ==
    op = "GasEstimate" =>
        /\ Len(trace) >= 1 =>
              trace[1] = CallEv("ftm_estimateGas", trx, "")
        /\ Len(trace) >= 2 =>
              /\ ~resps[1].err.isNil
              /\ Contains(resps[1].err.text, TextMissingValue)
              /\ trace[2] = CallEv("ftm_estimateGas", trace[1].probe, BlockTypeLatest)
        /\ Len(trace) <= 2
        /\ (Len(resps) >= 1 /\ resps[1].err.isNil) =>
              /\ pc = "done"
              /\ ret = [val |-> resps[1].val, err |-> NoErr]
              /\ Len(trace) = 1

\* The call with the latest block has been made, after a "missing value" error.
C17_Witness ==
    /\ op = "GasEstimate"
    /\ Len(trace) = 2
    /\ trace[2].block = BlockTypeLatest
    /\ trace[2].probe = trx
    /\ Contains(resps[1].err.text, TextMissingValue)

\* C19, as stated: when GasPrice returns an error, the price it returns with
\* it is not a price above the ceiling.
C19_NoPriceWithError ==
    (op = "GasPrice" /\ pc = "done" /\ ~ret.err.isNil) =>
        BigCmp(ret.val, maxAcceptedGasPrice) <= 0

\* C16: a GasPrice invocation makes no more than 4 RPC calls, and, every
\* call and every sleep returning, an invocation that has started returns.
C16_GasPriceTerminates ==
    /\ [](op = "GasPrice" => NumCalls <= 4)
    /\ (op = "GasPrice" /\ pc # "done") ~> (op = "GasPrice" /\ pc = "done")

\* GasPrice has returned a price read on the last attempt of its budget.
C16_Witness ==
    /\ op = "GasPrice"
    /\ pc = "done"
    /\ NumCalls = 4
    /\ ret.err.isNil

\* What GasPrice returns, read off the answers to the invocation's own calls:
\* the error of a failed call with the reading before it, an acceptable
\* reading, or "gas price not available" with the last reading.
ExpectedRet(rs) ==
    LET n    == Len(rs)
        last == rs[n]
    IN  IF ~last.err.isNil
        THEN [val |-> IF n = 1 THEN <<>> ELSE rs[n - 1].val, err |-> last.err]
        ELSE IF WithinCeiling(last) THEN [val |-> last.val, err |-> NoErr]
        ELSE [val |-> last.val, err |-> ErrGasPriceUnavailable]

\* The invocation of caller c went as its own answers alone decide.
OwnAnswersDecide(c) ==
    LET i == inv[c]
        n == Len(i.resps)
    IN  /\ i.calls = n
        /\ n <= 4
        /\ \A k \in 1..(n - 1) : AboveCeiling(i.resps[k])
        /\ i.pc = "gp_call" => i.sleeps = n /\ frames[c].try = n
        /\ i.pc \in {"gp_check", "gp_retry", "done"} =>
              i.sleeps = n - 1 /\ frames[c].try = n - 1
        /\ i.pc = "gp_retry" => AboveCeiling(i.resps[n])
        /\ i.pc = "done" =>
              /\ i.ret = ExpectedRet(i.resps)
              /\ AboveCeiling(i.resps[n]) => n = 4

\* C15: with GasPrice invoked by several callers at once, each invocation's
\* attempt counter, sleeps, ceiling test, retry budget and returned price and
\* error are decided by the answers to its own calls alone.
C15_ConcurrentIndependent == \A c \in Callers : OwnAnswersDecide(c)

\* Two invocations overlapped; one used its whole budget and got "gas price
\* not available", the other returned an acceptable price from its second call.
C15_Witness ==
    /\ inv["a"].met /\ inv["b"].met
    /\ inv["a"].pc = "done" /\ inv["b"].pc = "done"
    /\ inv["a"].calls = 4 /\ inv["a"].ret.err = ErrGasPriceUnavailable
    /\ inv["b"].calls = 2 /\ inv["b"].ret.err.isNil

\* The invocation of caller c owes nothing to the invocations before it.
StartsAfresh(c) ==
    LET i == inv[c]
        n == Len(i.resps)
    IN  /\ (i.pc = "gp_call" /\ i.calls = 0) =>
              frames[c].try = 0 /\ frames[c].price = <<>>
        /\ (i.pc = "done" /\ Outcome(i.ret) = "unavailable") =>
              i.calls = 4 /\ i.sleeps = 3
        /\ i.pc = "done" => i.calls >= 1 /\ n = i.calls
        /\ (i.pc = "done" /\ i.ret.err.isNil) =>
              i.resps[n].err.isNil /\ i.ret.val = i.resps[n].val

\* C18: whatever GasPrice invocations came before (successful, failed on
\* transport, failed with "gas price not available"), an invocation starts
\* with try = 0 and the zero price, has the whole budget of 4 calls, makes at
\* least one call before it returns, and a price returned with a nil error is
\* a reading of that same invocation.
C18_NoCrossCallState == \A c \in Callers : StartsAfresh(c)

\* After an invocation that ran out of attempts, the caller's next invocation
\* has used the whole budget again and returned the reading of its fourth call.
C18_Witness ==
    \E c \in Callers :
        /\ inv[c].prev = "unavailable"
        /\ inv[c].pc = "done"
        /\ inv[c].calls = 4
        /\ inv[c].ret.err.isNil
        /\ inv[c].ret.val = inv[c].resps[4].val

====
